---- MODULE Spec2Model ----
(***************************************************************************)
(* Model of backend/app.py: the Flask backend with the stub endpoint       *)
(* /api/stim-to-qpic and the render endpoint /api/qpic-to-svg.             *)
(*                                                                         *)
(* app.run(port=3000, debug=True) starts the development server, which     *)
(* serves every request on a thread of its own.  A request is therefore a  *)
(* process of the model; sys.stdout and the file system are shared.        *)
(*                                                                         *)
(* Strings are sequences of chunks (TLA+ strings); "\n" is the chunk NL.   *)
(***************************************************************************)
EXTENDS Integers, Sequences, FiniteSets, TLC

\* Number of requests the server receives in one run.
MaxRequests == 2
\* Largest number of lines the qpic.main calls of one run print, all together.
MaxLines == 2

Requests == 1..MaxRequests

VARIABLES
    pc,          \* position of each request's thread
    req,         \* the request: endpoint and JSON body
    sys_stdout,  \* process-wide sys.stdout: 0 is the original stream, r the StringIO of request r
    fs,          \* file system: temporary directory -> whether it exists and its files
    installed,   \* whether the pdf2svg executable exists, as seen by this request
    qpic_code,   \* local of qpic_to_svg / argument of invoke_qpic
    saved,       \* Capturing._stdout
    stringio,    \* Capturing._stringio content
    tikz_output, \* the Capturing list
    bound,       \* 'tikz_output' in locals()
    printed,     \* history: the lines this request's qpic.main printed
    latex,       \* history: outcome of pdflatex
    conv,        \* history: outcome of the pdf2svg conversion
    failure,     \* history: the first failure inside the render pipeline, "" if none
    steps,       \* history: the steps of the request, in execution order
    result,      \* return value of invoke_qpic
    resp         \* HTTP response

vars == <<pc, req, sys_stdout, fs, installed, qpic_code, saved, stringio,
          tikz_output, bound, printed, latex, conv, failure, steps, result, resp>>

NL == "\n"
Orig == 0

----------------------------------------------------------------------------
\* JSON bodies

NoFields == [k \in {} |-> <<>>]
JNull == [kind |-> "null", fields |-> NoFields]
Codes == { <<>>, <<"H 0">> }
Bodies ==
    { JNull, [kind |-> "array", fields |-> NoFields],
      [kind |-> "object", fields |-> NoFields] }
    \cup { [kind |-> "object", fields |-> [k \in {key} |-> v]] :
             key \in {"stimCode", "qpicCode"}, v \in Codes }

\* Python truthiness of request.get_json(): None and {} are falsy.
NotData(data) == data.kind = "null" \/ (data.kind = "object" /\ DOMAIN data.fields = {})

\* data.get(key) is defined on dicts only; None and lists raise AttributeError.
HasGet(data) == data.kind = "object"
HasKey(data, key) == key \in DOMAIN data.fields
\* `not data.get(key)`: the key is absent (None) or its value is the empty string.
NotField(data, key) == ~HasKey(data, key) \/ data.fields[key] = <<>>

----------------------------------------------------------------------------
\* Responses

NoResp == [status |-> 0, keys |-> {}, error |-> "", svgResult |-> <<>>,
           tikzCode |-> <<>>, qpicCode |-> <<>>, uncaught |-> FALSE]
ErrorResp(msg, code) == [NoResp EXCEPT !.status = code, !.keys = {"error"}, !.error = msg]
\* An exception that leaves the view function: the framework answers 500, no JSON.
Uncaught == [NoResp EXCEPT !.status = 500, !.uncaught = TRUE]

NoResult == [keys |-> {}, tikz |-> <<>>, pdf |-> <<>>, svg |-> <<>>, error |-> ""]

----------------------------------------------------------------------------
\* Pure helpers

RECURSIVE SplitAcc(_, _, _)
SplitAcc(s, cur, acc) ==
    IF s = <<>> THEN (IF cur = <<>> THEN acc ELSE Append(acc, cur))
    ELSE IF Head(s) = NL THEN SplitAcc(Tail(s), <<>>, Append(acc, cur))
    ELSE SplitAcc(Tail(s), Append(cur, Head(s)), acc)

\* str.splitlines()
splitlines(s) == SplitAcc(s, <<>>, <<>>)

RECURSIVE join_concat(_)
join_concat(lines) ==
    IF lines = <<>> THEN <<>> ELSE lines[1] \o join_concat(Tail(lines))

RECURSIVE join(_)
\* '\n'.join(lines)
join(lines) ==
    IF lines = <<>> THEN <<>>
    ELSE IF Len(lines) = 1 THEN lines[1]
    ELSE lines[1] \o <<NL>> \o join(Tail(lines))

\* The i-th line qpic.main prints for request r.
Line(r, i) == "tikz" \o ToString(r) \o "." \o ToString(i)

tex_content(tikz) ==
    <<NL, "\\documentclass{standalone}", NL, "\\usepackage{tikz}", NL,
      "\\begin{document}", NL>> \o join(tikz) \o <<NL, "\\end{document}", NL>>

PdfOf(tex) == <<"%PDF">> \o tex
SvgOf(pdf) == <<"<svg>">> \o pdf \o <<"</svg>">>
b64encode(bytes) == <<"base64(">> \o bytes \o <<")">>

check_dependencies_always(inst) == TRUE
\* check_dependencies(): False iff running pdf2svg raises FileNotFoundError.
check_dependencies(inst) == inst

NoTikzOutput_never(tikz) == FALSE
\* `not tikz_output`
NoTikzOutput(tikz) == tikz = <<>>

pdflatex_failed_never(rc) == FALSE
\* `result.returncode != 0` after pdflatex
pdflatex_failed(rc) == rc # 0

\* `result.returncode != 0` after pdf2svg
pdf2svg_failed(rc) == rc # 0

stim_convert_bare(stim_code) == stim_code
\* f"Converted Qpic Code: {stim_code}"
stim_convert(stim_code) == <<"Converted Qpic Code: ">> \o stim_code

NoFiles == [n \in {} |-> <<>>]
NoDir == [exists |-> FALSE, files |-> NoFiles]

\* TemporaryDirectory.__enter__: a fresh, empty directory.  mkdtemp picks a name
\* no other directory has; the model names the directory after its request.
TemporaryDirectory_enter(f, d) == [f EXCEPT ![d] = [exists |-> TRUE, files |-> NoFiles]]

TemporaryDirectory_exit_keep(f, d) == f
\* TemporaryDirectory.__exit__: the directory and everything in it is removed.
TemporaryDirectory_exit(f, d) == [f EXCEPT ![d] = NoDir]

\* open(path, 'w').write(content) inside directory d
WriteFile(f, d, name, content) ==
    [f EXCEPT ![d].files = [n \in DOMAIN f[d].files \cup {name} |->
                               IF n = name THEN content ELSE f[d].files[n]]]

FileExists(f, d, name) == f[d].exists /\ name \in DOMAIN f[d].files

\* sys.stdout.write(s): lands in the StringIO sys.stdout refers to now.  A write
\* to the original stream, or to a StringIO whose Capturing has exited, is not
\* kept by any request.
Live(b) == b \in Requests /\ pc[b] = "main"
StdoutWrite(bufs, s) ==
    IF Live(sys_stdout) THEN [bufs EXCEPT ![sys_stdout] = @ \o s] ELSE bufs

----------------------------------------------------------------------------
Init ==
    /\ pc = [r \in Requests |-> "new"]
    /\ req = [r \in Requests |-> [endpoint |-> "", data |-> JNull]]
    /\ sys_stdout = Orig
    /\ fs = [d \in Requests |-> NoDir]
    /\ installed = [r \in Requests |-> FALSE]
    /\ qpic_code = [r \in Requests |-> <<>>]
    /\ saved = [r \in Requests |-> Orig]
    /\ stringio = [r \in Requests |-> <<>>]
    /\ tikz_output = [r \in Requests |-> <<>>]
    /\ bound = [r \in Requests |-> FALSE]
    /\ printed = [r \in Requests |-> <<>>]
    /\ latex = [r \in Requests |-> "notrun"]
    /\ conv = [r \in Requests |-> "notrun"]
    /\ failure = [r \in Requests |-> ""]
    /\ steps = [r \in Requests |-> <<>>]
    /\ result = [r \in Requests |-> NoResult]
    /\ resp = [r \in Requests |-> NoResp]

Step(r, names) == steps' = [steps EXCEPT ![r] = @ \o names]

\* stim_to_qpic(): the whole view function.
stim_to_qpic(r) ==
    /\ pc[r] = "new"
    /\ \E data \in Bodies :
        /\ req' = [req EXCEPT ![r] = [endpoint |-> "stim-to-qpic", data |-> data]]
        /\ resp' = [resp EXCEPT ![r] =
              IF ~HasGet(data) THEN Uncaught
              ELSE IF NotField(data, "stimCode") THEN ErrorResp("stimCode is required", 400)
              ELSE [NoResp EXCEPT !.status = 200, !.keys = {"qpicCode"},
                                  !.qpicCode = stim_convert(data.fields["stimCode"])]]
    /\ pc' = [pc EXCEPT ![r] = "done"]
    /\ UNCHANGED <<sys_stdout, fs, installed, qpic_code, saved, stringio, tikz_output,
                   bound, printed, latex, conv, steps, result, failure>>

\* qpic_to_svg(), up to the call of invoke_qpic.
qpic_to_svg(r) ==
    /\ pc[r] = "new"
    /\ \E data \in Bodies :
        /\ req' = [req EXCEPT ![r] = [endpoint |-> "qpic-to-svg", data |-> data]]
        /\ IF NotData(data)
           THEN /\ resp' = [resp EXCEPT ![r] = ErrorResp("No JSON data received", 400)]
                /\ pc' = [pc EXCEPT ![r] = "done"]
                /\ UNCHANGED qpic_code
           ELSE IF ~HasGet(data)
           THEN /\ resp' = [resp EXCEPT ![r] =
                        ErrorResp("'list' object has no attribute 'get'", 500)]
                /\ pc' = [pc EXCEPT ![r] = "done"]
                /\ UNCHANGED qpic_code
           ELSE IF NotField(data, "qpicCode")
           THEN /\ resp' = [resp EXCEPT ![r] = ErrorResp("qpicCode is required", 400)]
                /\ pc' = [pc EXCEPT ![r] = "done"]
                /\ UNCHANGED qpic_code
           ELSE /\ qpic_code' = [qpic_code EXCEPT ![r] = data.fields["qpicCode"]]
                /\ pc' = [pc EXCEPT ![r] = "deps"]
                /\ UNCHANGED resp
    /\ UNCHANGED <<sys_stdout, fs, installed, saved, stringio, tikz_output,
                   bound, printed, latex, conv, steps, result, failure>>

\* qpic_to_svg, from the return of invoke_qpic on: the response built from the
\* result dict.  A missing key raises KeyError into the `except Exception` clause.
Response(res) ==
    IF "error" \in res.keys THEN ErrorResp(res.error, 400)
    ELSE IF ~({"svg", "tikz"} \subseteq res.keys) THEN ErrorResp("KeyError", 500)
    ELSE [NoResp EXCEPT !.status = 200, !.keys = {"svgResult", "tikzCode"},
                        !.svgResult = res.svg, !.tikzCode = res.tikz]

\* invoke_qpic returns res.  Its frame is gone, and with it the Capturing
\* object's _stdout, which is never read after __exit__.
Return(r, res) ==
    /\ saved' = [saved EXCEPT ![r] = Orig]
    /\ result' = [result EXCEPT ![r] = res]
    /\ resp' = [resp EXCEPT ![r] = Response(res)]
    /\ pc' = [pc EXCEPT ![r] = "done"]

\* The `except Exception` clause of invoke_qpic, reached from inside the
\* TemporaryDirectory block: the directory is removed while the exception
\* propagates, then the error dict is built and returned.
Raise(r, f, isBound, tikz, e) ==
    /\ fs' = TemporaryDirectory_exit(f, r)
    /\ Return(r, [NoResult EXCEPT !.keys = {"tikz", "error"},
                                  !.tikz = IF isBound THEN join(tikz) ELSE <<>>,
                                  !.error = e])

\* invoke_qpic: the dependency check.
CheckDependencies(r) ==
    /\ pc[r] = "deps"
    /\ \E inst \in BOOLEAN :
        /\ installed' = [installed EXCEPT ![r] = inst]
        /\ IF check_dependencies(inst)
           THEN /\ Step(r, <<"check_dependencies">>)
                /\ pc' = [pc EXCEPT ![r] = "tmp"]
                /\ UNCHANGED <<result, resp, saved>>
           ELSE /\ Step(r, <<"check_dependencies", "return">>)
                /\ Return(r, [NoResult EXCEPT !.keys = {"error"},
                        !.error = "pdf2svg is not installed. Please install it first."])
    /\ UNCHANGED <<req, sys_stdout, fs, qpic_code, stringio, tikz_output,
                   bound, printed, latex, conv, failure>>

\* invoke_qpic: create the temporary directory and write input.qpic.
WriteQpic(r) ==
    /\ pc[r] = "tmp"
    /\ Step(r, <<"write input.qpic">>)
    /\ fs' = WriteFile(TemporaryDirectory_enter(fs, r), r, "input.qpic", qpic_code[r])
    /\ pc' = [pc EXCEPT ![r] = "enter"]
    /\ UNCHANGED <<req, sys_stdout, installed, qpic_code, saved, stringio, tikz_output,
                   bound, printed, latex, conv, result, resp, failure>>

\* Capturing.__enter__, the binding of tikz_output, and the call of qpic.main.
Capturing_enter(r) ==
    /\ pc[r] = "enter"
    /\ Step(r, <<"qpic.main">>)
    /\ saved' = [saved EXCEPT ![r] = sys_stdout]
    /\ sys_stdout' = r
    /\ stringio' = [stringio EXCEPT ![r] = <<>>]
    /\ tikz_output' = [tikz_output EXCEPT ![r] = <<>>]
    /\ bound' = [bound EXCEPT ![r] = TRUE]
    /\ pc' = [pc EXCEPT ![r] = "main"]
    /\ UNCHANGED <<req, fs, installed, qpic_code, printed, latex, conv, result, resp, failure>>

RECURSIVE TotalPrinted(_)
TotalPrinted(R) ==
    IF R = {} THEN 0
    ELSE LET r == CHOOSE x \in R : TRUE IN Len(printed[r]) + TotalPrinted(R \ {r})

\* qpic.main prints one line: print() looks sys.stdout up at the time of the call.
QpicPrint(r) ==
    /\ pc[r] = "main"
    /\ TotalPrinted(Requests) < MaxLines
    /\ LET line == Line(r, Len(printed[r]) + 1) IN
        /\ stringio' = StdoutWrite(stringio, <<line, NL>>)
        /\ printed' = [printed EXCEPT ![r] = Append(@, line)]
    /\ UNCHANGED <<pc, req, sys_stdout, fs, installed, qpic_code, saved, tikz_output,
                   bound, latex, conv, steps, result, resp, failure>>

\* qpic.main returns, or raises (a description it cannot parse); either way
\* Capturing.__exit__ runs.  After a normal return follow the `if not
\* tikz_output` check and the writing of output.tex.
Capturing_exit(r) ==
    /\ pc[r] = "main"
    /\ LET tikz == tikz_output[r] \o splitlines(stringio[r]) IN
        /\ tikz_output' = [tikz_output EXCEPT ![r] = tikz]
        /\ stringio' = [stringio EXCEPT ![r] = <<>>]
        /\ sys_stdout' = saved[r]
        /\ \E raises \in BOOLEAN :
            IF raises
            THEN /\ failure' = [failure EXCEPT ![r] = "qpic.main raised"]
                 /\ Raise(r, fs, bound[r], tikz, "qpic: cannot parse the description")
                 /\ Step(r, <<"return">>)
            ELSE IF NoTikzOutput(tikz)
            THEN /\ Raise(r, fs, bound[r], tikz, "No output generated from Qpic")
                 /\ Step(r, <<"return">>)
                 /\ UNCHANGED failure
            ELSE /\ fs' = WriteFile(fs, r, "output.tex", tex_content(tikz))
                 /\ Step(r, <<"write output.tex">>)
                 /\ pc' = [pc EXCEPT ![r] = "latex"]
                 /\ UNCHANGED <<result, resp, failure, saved>>
    /\ UNCHANGED <<req, installed, qpic_code, bound, printed, latex, conv>>

\* invoke_qpic: run pdflatex.  The executable may be missing (FileNotFoundError);
\* otherwise it exits with 0 or 1, and either way it may or may not have
\* produced output.pdf (nonstopmode writes a PDF past recoverable errors; a
\* document without pages exits with 0 and writes none).
Pdflatex(r) ==
    /\ pc[r] = "latex"
    /\ \E out \in {"missing", "0", "1"}, wrote \in BOOLEAN :
        LET f == IF wrote /\ out # "missing"
                  THEN WriteFile(fs, r, "output.pdf", PdfOf(fs[r].files["output.tex"]))
                  ELSE fs
            rc == IF out = "0" THEN 0 ELSE 1
        IN  /\ latex' = [latex EXCEPT ![r] = out]
            /\ failure' = [failure EXCEPT ![r] =
                  IF out = "missing" THEN "pdflatex missing"
                  ELSE IF out = "1" THEN "pdflatex exit 1" ELSE @]
            /\ IF out = "missing"
               THEN /\ ~wrote
                    /\ Raise(r, f, bound[r], tikz_output[r],
                             "[Errno 2] No such file or directory: 'pdflatex'")
                    /\ Step(r, <<"pdflatex", "return">>)
               ELSE IF pdflatex_failed(rc)
               THEN /\ Raise(r, f, bound[r], tikz_output[r], "PDF conversion failed: <stderr>")
                    /\ Step(r, <<"pdflatex", "return">>)
               ELSE /\ fs' = f
                    /\ Step(r, <<"pdflatex">>)
                    /\ pc' = [pc EXCEPT ![r] = "conv"]
                    /\ UNCHANGED <<result, resp, saved>>
    /\ UNCHANGED <<req, sys_stdout, installed, qpic_code, stringio, tikz_output,
                   bound, printed, conv>>

\* invoke_qpic: run pdf2svg output.pdf output.svg.  Without output.pdf it exits
\* non-zero; exit code 0 means output.svg has been written.
Pdf2svg(r) ==
    /\ pc[r] = "conv"
    /\ \E out \in {"missing", "0", "1"} :
        LET f == IF out = "0"
                  THEN WriteFile(fs, r, "output.svg", SvgOf(fs[r].files["output.pdf"]))
                  ELSE fs
            rc == IF out = "0" THEN 0 ELSE 1
        IN  /\ (out = "missing") <=> ~installed[r]
            /\ (out = "0") => FileExists(fs, r, "output.pdf")
            /\ conv' = [conv EXCEPT ![r] = out]
            /\ failure' = [failure EXCEPT ![r] =
                  IF @ # "" THEN @
                  ELSE IF out = "missing" THEN "pdf2svg missing"
                  ELSE IF out = "1" THEN "pdf2svg exit 1" ELSE @]
            /\ IF out = "missing"
               THEN /\ Raise(r, f, bound[r], tikz_output[r],
                             "[Errno 2] No such file or directory: 'pdf2svg'")
                    /\ Step(r, <<"pdf2svg", "return">>)
               ELSE IF pdf2svg_failed(rc)
               THEN /\ Raise(r, f, bound[r], tikz_output[r], "SVG conversion failed: <stderr>")
                    /\ Step(r, <<"pdf2svg", "return">>)
               ELSE /\ fs' = f
                    /\ Step(r, <<"pdf2svg">>)
                    /\ pc' = [pc EXCEPT ![r] = "read"]
                    /\ UNCHANGED <<result, resp, saved>>
    /\ UNCHANGED <<req, sys_stdout, installed, qpic_code, stringio, tikz_output,
                   bound, printed, latex>>

\* invoke_qpic: read output.pdf and output.svg and return the result dict.  A
\* read raises when the file is missing or cannot be read.
ReadResults(r) ==
    /\ pc[r] = "read"
    /\ Step(r, <<"read results", "return">>)
    /\ \E unreadable \in {"none", "output.pdf", "output.svg"} :
      /\ failure' = [failure EXCEPT ![r] =
            IF @ # "" \/ unreadable = "none" THEN @ ELSE unreadable \o " unreadable"]
      /\ IF unreadable = "output.pdf" \/ ~FileExists(fs, r, "output.pdf")
         THEN Raise(r, fs, bound[r], tikz_output[r], "cannot read output.pdf")
         ELSE IF unreadable = "output.svg" \/ ~FileExists(fs, r, "output.svg")
         THEN Raise(r, fs, bound[r], tikz_output[r], "cannot read output.svg")
         ELSE /\ fs' = TemporaryDirectory_exit(fs, r)
              /\ Return(r, [keys |-> {"tikz", "pdf", "svg"},
                            tikz |-> join(tikz_output[r]),
                            pdf |-> b64encode(fs[r].files["output.pdf"]),
                            svg |-> fs[r].files["output.svg"],
                            error |-> ""])
    /\ UNCHANGED <<req, sys_stdout, installed, qpic_code, stringio, tikz_output,
                   bound, printed, latex, conv>>

Next ==
    \E r \in Requests :
        \/ stim_to_qpic(r)
        \/ qpic_to_svg(r)
        \/ CheckDependencies(r)
        \/ WriteQpic(r)
        \/ Capturing_enter(r)
        \/ QpicPrint(r)
        \/ Capturing_exit(r)
        \/ Pdflatex(r)
        \/ Pdf2svg(r)
        \/ ReadResults(r)

Spec == Init /\ [][Next]_vars

----------------------------------------------------------------------------
\* Vocabulary of the properties

Done(r) == pc[r] = "done"
Render(r) == req[r].endpoint = "qpic-to-svg"
Stub(r) == req[r].endpoint = "stim-to-qpic"
Did(r, name) == \E i \in 1..Len(steps[r]) : steps[r][i] = name
Field(r) == IF Stub(r) THEN "stimCode" ELSE "qpicCode"
\* The body carries a non-empty value for the endpoint's field.
HasField(r) ==
    /\ req[r].data.kind = "object"
    /\ Field(r) \in DOMAIN req[r].data.fields
    /\ req[r].data.fields[Field(r)] # <<>>
\* The body is null, the empty object, or an object without the field or with an empty one.
MissingField(r) ==
    \/ req[r].data.kind = "null"
    \/ /\ req[r].data.kind = "object"
       /\ (Field(r) \in DOMAIN req[r].data.fields => req[r].data.fields[Field(r)] = <<>>)
\* s is the lines, each one chunk, with a newline between two of them.
IsJoined(s, lines) ==
    /\ Len(s) = (IF lines = <<>> THEN 0 ELSE 2 * Len(lines) - 1)
    /\ \A i \in 1..Len(lines) : lines[i] = <<s[2 * i - 1]>>
    /\ \A i \in 1..(Len(lines) - 1) : s[2 * i] = NL
\* The capture holds the lines as printed, one chunk each.
OwnLines(r) == [i \in 1..Len(printed[r]) |-> <<printed[r][i]>>]
Ok200(r) ==
    /\ resp[r].status = 200
    /\ resp[r].keys = {"svgResult", "tikzCode"}
    /\ resp[r].svgResult # <<>>
    /\ resp[r].svgResult = result[r].svg
    /\ IsJoined(resp[r].tikzCode, tikz_output[r])
ToolsSucceeded(r) ==
    /\ Done(r) /\ Render(r) /\ HasField(r)
    /\ installed[r]
    /\ printed[r] # <<>>
    /\ latex[r] = "0"
    /\ conv[r] = "0"

----------------------------------------------------------------------------
\* C1 (as stated): a render request with a non-empty qpicCode, pdf2svg installed,
\* at least one line printed by qpic.main, and pdflatex and pdf2svg both exiting
\* with code 0, is answered with status 200, a non-empty svgResult and tikzCode
\* equal to the captured lines joined by newlines.
C1_ToolsSucceededGives200 == \A r \in Requests : ToolsSucceeded(r) => Ok200(r)

\* C1 (amended): the same, provided output.pdf and output.svg are then read
\* without error.
C1_ReadableGives200 ==
    \A r \in Requests :
        ToolsSucceeded(r) /\ failure[r] \notin {"output.pdf unreadable", "output.svg unreadable"}
            => Ok200(r)
C1_Witness ==
    \E r \in Requests : ToolsSucceeded(r) /\ Ok200(r) /\ Len(tikz_output[r]) = 2

\* C2: a POST to either endpoint whose body misses the required field (null
\* body, empty object, field absent, field empty) is answered with status 400
\* and a JSON error field, and no external tool is invoked.
C2_MissingFieldGives400 ==
    \A r \in Requests :
        Done(r) /\ MissingField(r) =>
            /\ resp[r].status = 400
            /\ "error" \in resp[r].keys
            /\ steps[r] = <<>>

\* C3: when pdf2svg is absent, a render request with a non-empty qpicCode ends
\* with status 400 and the error naming pdf2svg as not installed, not with an
\* uncaught exception; no temporary directory is created and neither qpic.main
\* nor pdflatex is invoked.
C3_Pdf2svgAbsent ==
    \A r \in Requests :
        Did(r, "check_dependencies") /\ ~installed[r] =>
            /\ Done(r)
            /\ resp[r].status = 400
            /\ resp[r].keys = {"error"}
            /\ resp[r].error = "pdf2svg is not installed. Please install it first."
            /\ ~resp[r].uncaught
            /\ ~fs[r].exists
            /\ ~Did(r, "write input.qpic")
            /\ ~Did(r, "qpic.main")
            /\ ~Did(r, "pdflatex")
C3_Witness ==
    \E r \in Requests : Done(r) /\ Render(r) /\ HasField(r)
                        /\ Did(r, "check_dependencies") /\ ~installed[r]

\* C4: a failure inside the render pipeline (qpic.main raising, pdflatex missing
\* or exiting non-zero, pdf2svg exiting non-zero, output.pdf or output.svg
\* unreadable) ends the request with a JSON error field and status 400 or 500:
\* never status 200, never an svgResult, never an escaping exception.
C4_FailureGivesError ==
    \A r \in Requests :
        Done(r) /\ failure[r] # "" =>
            /\ resp[r].status \in {400, 500}
            /\ "error" \in resp[r].keys
            /\ "svgResult" \notin resp[r].keys
            /\ ~resp[r].uncaught
C4_Witness ==
    \E r \in Requests : Done(r) /\ failure[r] = "output.svg unreadable"
                        /\ resp[r].status = 400

Canon == <<"check_dependencies", "write input.qpic", "qpic.main", "write output.tex",
           "pdflatex", "pdf2svg", "read results">>
IsPrefix(s, t) == Len(s) <= Len(t) /\ \A i \in 1..Len(s) : s[i] = t[i]
Body(s) == IF s # <<>> /\ s[Len(s)] = "return" THEN SubSeq(s, 1, Len(s) - 1) ELSE s
FailedStep(f) ==
    IF f = "qpic.main raised" THEN "qpic.main"
    ELSE IF f \in {"pdflatex missing", "pdflatex exit 1"} THEN "pdflatex"
    ELSE IF f \in {"pdf2svg missing", "pdf2svg exit 1"} THEN "pdf2svg"
    ELSE "read results"

\* C5: the steps of a render request run in the order dependency check, write
\* input.qpic, qpic.main, write output.tex, pdflatex, pdf2svg, read, return; each
\* at most once; after a failed step no later step runs; pdflatex runs only
\* after non-empty qpic output and pdf2svg only after pdflatex exited with 0.
C5_StepOrder ==
    \A r \in Requests :
        /\ IsPrefix(Body(steps[r]), Canon)
        /\ Did(r, "return") <=> (Done(r) /\ steps[r] # <<>>)
        /\ Did(r, "pdflatex") => tikz_output[r] # <<>>
        /\ Did(r, "pdf2svg") => latex[r] = "0"
        /\ Did(r, "read results") => conv[r] = "0"
        /\ failure[r] # "" =>
               /\ Done(r)
               /\ Body(steps[r])[Len(Body(steps[r]))] = FailedStep(failure[r])
C5_Witness ==
    \E r \in Requests : steps[r] = Canon \o <<"return">>

Artifacts == {"input.qpic", "output.tex", "output.pdf", "output.svg"}

\* C6: the file artifacts of a request exist only inside its own temporary
\* directory and only while invoke_qpic runs: once invoke_qpic has returned,
\* on the success path and on every failure path, the directory and its files
\* are gone, so that no later request can see them.
C6_TempDirGone ==
    \A r \in Requests :
        /\ DOMAIN fs[r].files \subseteq Artifacts
        /\ fs[r].exists => pc[r] \in {"enter", "main", "latex", "conv", "read"}
        /\ ~fs[r].exists => fs[r].files = NoFiles
        /\ fs[r].exists => fs[r].files["input.qpic"] = qpic_code[r]
C6_Witness ==
    /\ \A r \in Requests : Done(r) /\ Did(r, "write input.qpic") /\ ~fs[r].exists
    /\ \E r \in Requests : resp[r].status = 200
    /\ \E r \in Requests : failure[r] # ""

\* The answer of the stub endpoint, and what its request has left behind.
C7_StubInv ==
    \A r \in Requests :
        Done(r) /\ Stub(r) /\ HasField(r) =>
            /\ resp[r].status = 200
            /\ resp[r].keys = {"qpicCode"}
            /\ Len(resp[r].qpicCode) = 1 + Len(req[r].data.fields["stimCode"])
            /\ resp[r].qpicCode[1] = "Converted Qpic Code: "
            /\ \A i \in 1..Len(req[r].data.fields["stimCode"]) :
                   resp[r].qpicCode[i + 1] = req[r].data.fields["stimCode"][i]
            /\ steps[r] = <<>>
            /\ ~fs[r].exists
            /\ latex[r] = "notrun" /\ conv[r] = "notrun"
\* The step of the stub endpoint changes no shared state.
C7_StubFrame ==
    \A r \in Requests :
        pc[r] = "new" /\ Done(r)' /\ Stub(r)' =>
            UNCHANGED <<sys_stdout, fs, stringio, tikz_output, saved, steps, latex, conv>>
\* C7: the stub endpoint answers a request with a non-empty stimCode with
\* status 200 and qpicCode = "Converted Qpic Code: " followed by the stimCode,
\* and changes nothing else: no file, no directory, no subprocess, no qpic
\* call, sys.stdout untouched.
C7_Stub == [](C7_StubInv) /\ [][C7_StubFrame]_vars
C7_Witness ==
    /\ \E r \in Requests : Done(r) /\ Stub(r) /\ HasField(r)
    /\ \E r \in Requests : fs[r].exists /\ sys_stdout = r

\* C8: once every request that was started has completed, sys.stdout is the
\* stream it was before the first of them started.
C8_StdoutRestored ==
    (\A r \in Requests : pc[r] \in {"new", "done"}) => sys_stdout = Orig

\* C9: the lines captured for a request are exactly the lines its own
\* qpic.main call printed, in the order printed.
C9_OwnLinesCaptured ==
    \A r \in Requests :
        Did(r, "qpic.main") /\ pc[r] # "main" => tikz_output[r] = OwnLines(r)

\* C10: when qpic.main returns without printing any line, invoke_qpic fails with
\* "No output generated from Qpic" and an empty tikz string; output.tex is not
\* written, pdflatex and pdf2svg are not run, and the answer is status 400 with
\* that error.
C10_NoOutput ==
    \A r \in Requests :
        /\ Did(r, "qpic.main") /\ pc[r] # "main"
        /\ failure[r] # "qpic.main raised"
        /\ printed[r] = <<>>
        => /\ Done(r)
           /\ result[r].error = "No output generated from Qpic"
           /\ result[r].tikz = <<>>
           /\ steps[r] = <<"check_dependencies", "write input.qpic", "qpic.main", "return">>
           /\ resp[r].status = 400
           /\ resp[r].error = "No output generated from Qpic"

====
